---- MODULE Spec2Model ----
(***************************************************************************)
(* Velocity-Verlet integrator of 02_02_Verlet.ipynb: class particle2 and   *)
(* the script that drives NPLANETS particles and records their             *)
(* trajectories.                                                           *)
(*                                                                         *)
(* Arithmetic.  The notebook computes in binary floating point.  The model *)
(* computes on the integer grid: sums and products are exact, a quotient   *)
(* is rounded to the grid (toward zero, so that rounding commutes with     *)
(* negation as IEEE rounding does), math.sqrt is rounded down to the grid. *)
(* A float is a record [nan, v]; nan is sticky through every operation, as *)
(* it is for numpy float64.  The time grid is chosen so that dt / 2. is    *)
(* exact, as it always is in binary floating point.                        *)
(***************************************************************************)
EXTENDS Integers, Sequences, FiniteSets, TLC

(* ---------------------------- bounds ----------------------------------- *)
MaxR == 4        \* initial radii r1, r2 range over 0..MaxR
MaxV == 1        \* initial speeds v1, v2 range over 0..MaxV
MaxMass == 2     \* masses m1, m2 range over 1..MaxMass
MaxHalfDt == 2   \* dt ranges over 2*1 .. 2*MaxHalfDt
MaxTmax == 8     \* tmax ranges over 0..MaxTmax

(* ------------------------ program constants ---------------------------- *)
GM == 39         \* GM = 4*math.pi**2, on the integer grid
NPLANETS == 2

PlanetIds == 0 .. (NPLANETS - 1)

(* ------------------------- float arithmetic ---------------------------- *)
Num(a) == [nan |-> FALSE, v |-> a]
NaN == [nan |-> TRUE, v |-> 0]

Add(a, b) == IF a.nan \/ b.nan THEN NaN ELSE Num(a.v + b.v)
Mul(a, b) == IF a.nan \/ b.nan THEN NaN ELSE Num(a.v * b.v)
Neg(a) == IF a.nan THEN NaN ELSE Num(0 - a.v)

Abs(a) == IF a < 0 THEN 0 - a ELSE a
IntQuot(a, b) == IF (a < 0) = (b < 0) THEN Abs(a) \div Abs(b) ELSE 0 - (Abs(a) \div Abs(b))

\* Float division.  The only divisor that can be zero is r3 of the force
\* law, and r3 = 0 exactly when x = y = 0, so the numerator is 0 as well:
\* numpy float64 0/0 is nan with a RuntimeWarning, no exception.
Quot(a, b) == IF a.nan \/ b.nan \/ b.v = 0 THEN NaN ELSE Num(IntQuot(a.v, b.v))

\* The largest grid value whose square is at most a.
RECURSIVE IntSqrt(_)
IntSqrt(a) ==
  IF a < 2 THEN a
  ELSE LET s == 2 * IntSqrt(a \div 4)
       IN IF (s + 1) * (s + 1) > a THEN s ELSE s + 1
Sqrt(a) == IF a.nan THEN NaN ELSE Num(IntSqrt(a.v))

(* ----------------------------- particle2 ------------------------------- *)
particle2(mass, x0, y0, vx0, vy0, fx0, fy0, dt0) ==
  [mass |-> mass, x |-> x0, y |-> y0, vx |-> vx0, vy |-> vy0,
   dt |-> dt0, halfdt |-> IntQuot(dt0, 2), fx |-> fx0, fy |-> fy0]

\* accel kicking by the whole step dt instead of halfdt
accel_FullStep(p) ==
  [p EXCEPT !.vx = Add(p.vx, Quot(Mul(p.fx, Num(p.dt)), Num(p.mass))),
            !.vy = Add(p.vy, Quot(Mul(p.fy, Num(p.dt)), Num(p.mass)))]

\* accel that forgets to divide by the mass
accel_NoMass(p) ==
  [p EXCEPT !.vx = Add(p.vx, Mul(p.fx, Num(p.halfdt))),
            !.vy = Add(p.vy, Mul(p.fy, Num(p.halfdt)))]

accel(p) ==
  [p EXCEPT !.vx = Add(p.vx, Quot(Mul(p.fx, Num(p.halfdt)), Num(p.mass))),
            !.vy = Add(p.vy, Quot(Mul(p.fy, Num(p.halfdt)), Num(p.mass)))]

move(p) ==
  [p EXCEPT !.x = Add(p.x, Add(Mul(p.vx, Num(p.dt)),
                    Quot(Mul(Mul(p.fx, Num(p.dt)), Num(p.halfdt)), Num(p.mass)))),
            !.y = Add(p.y, Add(Mul(p.vy, Num(p.dt)),
                    Quot(Mul(Mul(p.fy, Num(p.dt)), Num(p.halfdt)), Num(p.mass))))]

\* get_force adding to the stored force instead of replacing it
get_force_Accumulate(p) ==
  LET r == Sqrt(Add(Mul(p.x, p.x), Mul(p.y, p.y)))
      r3 == Mul(Mul(r, r), r)
  IN [p EXCEPT !.fx = Add(p.fx, Quot(Mul(Mul(Num(0 - GM), Num(p.mass)), p.x), r3)),
               !.fy = Add(p.fy, Quot(Mul(Mul(Num(0 - GM), Num(p.mass)), p.y), r3))]

get_force(p) ==
  LET r == Sqrt(Add(Mul(p.x, p.x), Mul(p.y, p.y)))
      r3 == Mul(Mul(r, r), r)
  IN [p EXCEPT !.fx = Quot(Mul(Mul(Num(0 - GM), Num(p.mass)), p.x), r3),
               !.fy = Quot(Mul(Mul(Num(0 - GM), Num(p.mass)), p.y), r3)]

\* verlet2 kicking before it moves
verlet2_KickFirst == <<"accel", "move", "get_force", "accel">>

\* The statements of verlet2, in program order.
verlet2 == <<"move", "accel", "get_force", "accel">>

\* a set-up loop that leaves the constructor's zero force in place
InitialForce_Zero(p) == p

\* Lines 162-167 of the script: the initial force, computed inline.
InitialForce(p) ==
  LET r == Sqrt(Add(Mul(p.x, p.x), Mul(p.y, p.y)))
      r3 == Mul(Mul(r, r), r)
      fx == Quot(Mul(Mul(Num(0 - GM), Num(p.mass)), p.x), r3)
      fy == Quot(Mul(Mul(Num(0 - GM), Num(p.mass)), p.y), r3)
  IN [p EXCEPT !.fx = fx, !.fy = fy]

\* planets.append([particle2]): a slot that is not yet a particle.
Placeholder == particle2(0, Num(0), Num(0), Num(0), Num(0), Num(0), Num(0), 0)

(* ------------------------------ arrays --------------------------------- *)
\* np.zeros(shape=(rows, NPLANETS))
Zeros(rows) == [j \in 0 .. (rows - 1) |-> [k \in PlanetIds |-> Num(0)]]

\* arr[row - 1, col] = val
SetItem_PrevRow(arr, row, col, val) == [arr EXCEPT ![row - 1][col] = val]
\* arr[:, col] = val
SetItem_Column(arr, row, col, val) == [j \in DOMAIN arr |-> [arr[j] EXCEPT ![col] = val]]
\* arr[row] = val
SetItem_WholeRow(arr, row, col, val) == [arr EXCEPT ![row] = [k \in DOMAIN arr[row] |-> val]]

\* arr[row, col] = val
SetItem(arr, row, col, val) == [arr EXCEPT ![row][col] = val]

\* range(1, nsteps) of the integrator loop: TRUE while the loop has a next i
InRange(idx, stop) == idx < stop

\* the two for statements nested the other way round: every step of one
\* body before the next body starts
Advance_BodyMajor(idx, body, stop) ==
  IF idx + 1 < stop THEN <<idx + 1, body>>
  ELSE IF body + 1 < NPLANETS THEN <<1, body + 1>>
  ELSE <<stop, 0>>

\* for i in range(1,nsteps): for n in range(0,NPLANETS): the indices <<i, n>>
\* of the iteration that follows iteration <<idx, body>>
Advance(idx, body, stop) ==
  IF body + 1 < NPLANETS THEN <<idx, body + 1>> ELSE <<idx + 1, 0>>

(* ------------------------------- state --------------------------------- *)
VARIABLES
  pc,       \* position in the script
  err,      \* the exception that ended the script, or "none"
  m,        \* m = [m1, m2]
  rinit,    \* r1, r2
  vinit,    \* v1, v2
  dt, tmax, nsteps,
  x, y, vx, vy,   \* the trajectory arrays
  planets,
  i, n,     \* loop indices
  stmt,     \* index of the next statement of verlet2 in the running call
  pre,      \* history: the particle as it was when the running call began
  ops,      \* history: the sub-calls of the running verlet2 call, with the force each saw
  hist,     \* history: per planet, the particle at each return of verlet2
  clock     \* history: per planet, the time index (in half steps) of x, v and f

vars == <<pc, err, m, rinit, vinit, dt, tmax, nsteps, x, y, vx, vy,
          planets, i, n, stmt, pre, ops, hist, clock>>

config == <<m, rinit, vinit, dt, tmax, nsteps>>
arrays == <<x, y, vx, vy>>
history == <<pre, ops, hist, clock>>

\* Lines 124-142: the configuration and the zeroed arrays.
\* m1, m2, r1, r2, v1, v2, dt and tmax are the script's configuration; each
\* is drawn from its range, the initial speed independently of the radius.
Init ==
  /\ m \in [PlanetIds -> 1 .. MaxMass]
  /\ rinit \in [PlanetIds -> 0 .. MaxR]
  /\ vinit \in [PlanetIds -> 0 .. MaxV]
  /\ dt \in {2 * h : h \in 1 .. MaxHalfDt}
  /\ tmax \in 0 .. MaxTmax
  /\ nsteps = IntQuot(tmax, dt)
  /\ x = Zeros(nsteps) /\ y = Zeros(nsteps)
  /\ vx = Zeros(nsteps) /\ vy = Zeros(nsteps)
  /\ planets = [k \in PlanetIds |-> Placeholder]
  /\ pc = "initial" /\ err = "none"
  /\ i = 0 /\ n = 0 /\ stmt = 0
  /\ pre = Placeholder /\ ops = <<>>
  /\ hist = [k \in PlanetIds |-> <<>>]
  /\ clock = [k \in PlanetIds |-> [x |-> 0, v |-> 0, f |-> 0]]

\* Lines 144-157: row 0 of every array, then the placeholder list.
\* Indexing row 0 of an array with no rows raises IndexError.
SetInitial ==
  /\ pc = "initial"
  /\ IF nsteps = 0
       THEN /\ pc' = "error" /\ err' = "IndexError"
            /\ UNCHANGED <<arrays, i>>
       ELSE /\ x' = [x EXCEPT ![0] = [k \in PlanetIds |-> Num(rinit[k])]]
            /\ y' = [y EXCEPT ![0] = [k \in PlanetIds |-> Num(0)]]
            /\ vx' = [vx EXCEPT ![0] = [k \in PlanetIds |-> Num(0)]]
            /\ vy' = [vy EXCEPT ![0] = [k \in PlanetIds |-> Num(vinit[k])]]
            /\ pc' = "setup" /\ i' = 0
            /\ UNCHANGED err
  /\ UNCHANGED <<config, planets, n, stmt, history>>

\* Lines 160-167: one iteration of the set-up loop.
SetupPlanet ==
  /\ pc = "setup"
  /\ planets' = [planets EXCEPT ![i] =
        InitialForce(particle2(m[i], x[0][i], y[0][i], vx[0][i], vy[0][i],
                               Num(0), Num(0), dt))]
  /\ IF i + 1 < NPLANETS
       THEN /\ i' = i + 1 /\ pc' = "setup"
       ELSE /\ i' = 1 /\ pc' = "loop"
  /\ n' = 0
  /\ UNCHANGED <<err, config, arrays, stmt, history>>

\* Line 171: planets[n].verlet2() is entered.
CallVerlet2 ==
  /\ pc = "loop" /\ InRange(i, nsteps)
  /\ pc' = "verlet2" /\ stmt' = 1
  /\ pre' = planets[n] /\ ops' = <<>>
  /\ UNCHANGED <<err, config, arrays, planets, i, n, hist, clock>>

Running(name) == pc = "verlet2" /\ stmt <= Len(verlet2) /\ verlet2[stmt] = name

Seen(name) == [op |-> name, fx |-> planets[n].fx, fy |-> planets[n].fy]

CallMove ==
  /\ Running("move")
  /\ planets' = [planets EXCEPT ![n] = move(planets[n])]
  /\ ops' = Append(ops, Seen("move"))
  /\ clock' = [clock EXCEPT ![n].x = @ + 2]
  /\ stmt' = stmt + 1
  /\ UNCHANGED <<pc, err, config, arrays, i, n, pre, hist>>

CallAccel ==
  /\ Running("accel")
  /\ planets' = [planets EXCEPT ![n] = accel(planets[n])]
  /\ ops' = Append(ops, Seen("accel"))
  /\ clock' = [clock EXCEPT ![n].v = @ + 1]
  /\ stmt' = stmt + 1
  /\ UNCHANGED <<pc, err, config, arrays, i, n, pre, hist>>

CallGetForce ==
  /\ Running("get_force")
  /\ planets' = [planets EXCEPT ![n] = get_force(planets[n])]
  /\ ops' = Append(ops, Seen("get_force"))
  /\ clock' = [clock EXCEPT ![n].f = clock[n].x]
  /\ stmt' = stmt + 1
  /\ UNCHANGED <<pc, err, config, arrays, i, n, pre, hist>>

\* verlet2 returns to line 172.
ReturnVerlet2 ==
  /\ pc = "verlet2" /\ stmt > Len(verlet2)
  /\ pc' = "record"
  /\ hist' = [hist EXCEPT ![n] = Append(@, planets[n])]
  /\ UNCHANGED <<err, config, arrays, planets, i, n, stmt, pre, ops, clock>>

\* Lines 172-175, and the step of the two for loops.
Record ==
  /\ pc = "record"
  /\ x' = SetItem(x, i, n, planets[n].x)
  /\ y' = SetItem(y, i, n, planets[n].y)
  /\ vx' = SetItem(vx, i, n, planets[n].vx)
  /\ vy' = SetItem(vy, i, n, planets[n].vy)
  /\ i' = Advance(i, n, nsteps)[1]
  /\ n' = Advance(i, n, nsteps)[2]
  /\ pc' = "loop"
  /\ UNCHANGED <<err, config, planets, stmt, history>>

\* range(1, nsteps) is exhausted; line 178 ends the script.
Finish ==
  /\ pc = "loop" /\ ~InRange(i, nsteps)
  /\ pc' = "done"
  /\ UNCHANGED <<err, config, arrays, planets, i, n, stmt, history>>

Next ==
  \/ SetInitial
  \/ SetupPlanet
  \/ CallVerlet2
  \/ CallMove
  \/ CallAccel
  \/ CallGetForce
  \/ ReturnVerlet2
  \/ Record
  \/ Finish

Spec == Init /\ [][Next]_vars

(* ------------------------- reference notions --------------------------- *)
\* The force law of the specification, -GM * mass * position / |position|^3,
\* on the same grid.
Norm(px, py) == Sqrt(Add(Mul(px, px), Mul(py, py)))
Cube(a) == Mul(a, Mul(a, a))
CentralForce(px, py, mass) ==
  [fx |-> Quot(Neg(Mul(Num(GM * mass), px)), Cube(Norm(px, py))),
   fy |-> Quot(Neg(Mul(Num(GM * mass), py)), Cube(Norm(px, py)))]

ForceConsistent(p) ==
  /\ p.fx = CentralForce(p.x, p.y, p.mass).fx
  /\ p.fy = CentralForce(p.x, p.y, p.mass).fy

Finite(p) == ~(p.x.nan \/ p.y.nan \/ p.vx.nan \/ p.vy.nan \/ p.fx.nan \/ p.fy.nan)
AtOrigin(p) == p.x = Num(0) /\ p.y = Num(0)
OpNames == [j \in 1 .. Len(ops) |-> ops[j].op]
Returned == pc = "record"
Boundary == pc \in {"loop", "record", "done"}

(* ------------------------------- C1 ------------------------------------ *)
\* C1: every verlet2 call runs move, accel, get_force, accel in this order
\* (at every point of the call the sub-calls made so far are a prefix of that
\* sequence, and at the return all four have been made); get_force is called
\* exactly once, after move and before the second accel; move reads the force
\* that was stored when the call began.
C1_StepOrder ==
  LET order == <<"move", "accel", "get_force", "accel">>
  IN /\ pc \in {"verlet2", "record"} =>
          /\ Len(ops) <= 4
          /\ OpNames = SubSeq(order, 1, Len(ops))
          /\ Len(ops) >= 1 => (ops[1].fx = pre.fx /\ ops[1].fy = pre.fy)
     /\ Returned =>
          /\ Len(ops) = 4
          /\ Cardinality({j \in 1 .. 4 : ops[j].op = "get_force"}) = 1
          /\ planets[n].fx = get_force(planets[n]).fx

C1_Witness ==
  /\ Returned /\ Len(ops) = 4
  /\ Finite(planets[n]) /\ pre.fx.v # 0
  /\ planets[n].fx # pre.fx

(* ------------------------------- C2 ------------------------------------ *)
\* C2: for a body with m > 0 whose force is the force law at its position,
\* one verlet2 call yields x' = x + v*dt + (f/m)*dt*dt/2, f' = F(x'),
\* v' = v + (f/m)*dt/2 + (f'/m)*dt/2, with x, v, f taken at the start of the
\* call (each quotient rounded once to the grid).
RefPos(q, v, f, mass, h) ==
  Add(q, Add(Mul(v, Num(h)), Quot(Mul(f, Num(h * h)), Num(2 * mass))))
RefVel(v, f, fnew, mass, h) ==
  Add(Add(v, Quot(Mul(f, Num(h)), Num(2 * mass))),
      Quot(Mul(fnew, Num(h)), Num(2 * mass)))

C2_VelocityVerlet ==
  (Returned /\ pre.mass > 0 /\ ForceConsistent(pre)) =>
    LET xr == RefPos(pre.x, pre.vx, pre.fx, pre.mass, pre.dt)
        yr == RefPos(pre.y, pre.vy, pre.fy, pre.mass, pre.dt)
        fr == CentralForce(xr, yr, pre.mass)
    IN /\ planets[n].x = xr
       /\ planets[n].y = yr
       /\ planets[n].fx = fr.fx
       /\ planets[n].fy = fr.fy
       /\ planets[n].vx = RefVel(pre.vx, pre.fx, fr.fx, pre.mass, pre.dt)
       /\ planets[n].vy = RefVel(pre.vy, pre.fy, fr.fy, pre.mass, pre.dt)

C2_Witness ==
  /\ Returned /\ pre.mass > 1 /\ ForceConsistent(pre)
  /\ Finite(planets[n])
  /\ pre.vy.v # 0 /\ pre.fx.v # 0
  /\ planets[n].fx.v # 0 /\ planets[n].fx # pre.fx
  /\ planets[n].vx # pre.vx

(* ------------------------------- C3 ------------------------------------ *)
\* C3: at the start and at the end of every completed verlet2 step of every
\* body the stored force is the force law at the body's position, and
\* position, velocity and force carry the same time index (k steps after k
\* completed calls); the velocity is at a half-step index only inside a call.
C3_ForceCurrent ==
  /\ Boundary =>
       \A k \in PlanetIds :
         /\ ForceConsistent(planets[k])
         /\ clock[k].x = 2 * Len(hist[k])
         /\ clock[k].v = clock[k].x
         /\ clock[k].f = clock[k].x
  /\ \A k \in PlanetIds :
       clock[k].v % 2 = 1 => (pc = "verlet2" /\ k = n /\ stmt > 1 /\ stmt <= Len(verlet2))

C3_Witness ==
  /\ pc = "loop" /\ n = 1
  /\ Len(hist[0]) = 2 /\ Len(hist[1]) = 1
  /\ Finite(planets[0]) /\ planets[0].fx.v # 0
  /\ planets[0].fx # hist[0][1].fx

(* ------------------------------- C4 ------------------------------------ *)
\* C4: right after get_force the stored force is -GM * mass * position /
\* |position|^3 whenever |position| > 0; it depends only on position, mass
\* and GM (not on the velocity or on the force stored before), so a second
\* get_force without a move in between stores the same force.
AfterGetForce == pc = "verlet2" /\ stmt > 1 /\ verlet2[stmt - 1] = "get_force"

Sample(j, k) == <<x[j][k], y[j][k], vx[j][k], vy[j][k]>>
FiniteSample(j, k) == ~(x[j][k].nan \/ y[j][k].nan \/ vx[j][k].nan \/ vy[j][k].nan)

C5_DomainErrorAtOrigin ==
  /\ \A k \in PlanetIds : Finite(planets[k])
  /\ \A j \in DOMAIN x : \A k \in PlanetIds : FiniteSample(j, k)
  /\ \A k \in PlanetIds :
       (planets[k].mass > 0 /\ AtOrigin(planets[k]) /\ clock[k].f = clock[k].x)
         => (pc = "error" /\ err = "DomainError")

(* ------------------------------- C6 ------------------------------------ *)
\* C6: the finished run has made exactly tmax/dt verlet2 calls on each body.
C6_StepCount ==
  pc = "done" => \A k \in PlanetIds : Len(hist[k]) = IntQuot(tmax, dt)

(* ------------------------------- C7 ------------------------------------ *)
\* C7: at the end of the run every trajectory array has exactly nsteps rows;
\* row 0 of a body is its initial condition and row j >= 1 is its position
\* and velocity at the return of its j-th verlet2 call.
C7_Trajectory ==
  pc = "done" =>
    /\ DOMAIN x = 0 .. (nsteps - 1) /\ DOMAIN y = 0 .. (nsteps - 1)
    /\ DOMAIN vx = 0 .. (nsteps - 1) /\ DOMAIN vy = 0 .. (nsteps - 1)
    /\ \A k \in PlanetIds :
         /\ Sample(0, k) = <<Num(rinit[k]), Num(0), Num(0), Num(vinit[k])>>
         /\ Len(hist[k]) = nsteps - 1
         /\ \A j \in 1 .. (nsteps - 1) :
              Sample(j, k) = <<hist[k][j].x, hist[k][j].y, hist[k][j].vx, hist[k][j].vy>>

C7_Witness ==
  /\ pc = "done" /\ nsteps >= 3
  /\ FiniteSample(2, 0) /\ FiniteSample(2, 1)
  /\ Sample(1, 0) # Sample(0, 0) /\ Sample(2, 0) # Sample(1, 0)
  /\ Sample(2, 1) # Sample(2, 0)

(* ------------------------------- C8 ------------------------------------ *)
\* C8: a run with nsteps = 0 completes without error, and each body's
\* trajectory has length 1 and holds exactly the initial condition.
C8_ZeroSteps ==
  (nsteps = 0 /\ pc \in {"done", "error"}) =>
    /\ pc = "done" /\ err = "none"
    /\ DOMAIN x = {0}
    /\ \A k \in PlanetIds :
         Sample(0, k) = <<Num(rinit[k]), Num(0), Num(0), Num(vinit[k])>>

(* ------------------------------- C9 ------------------------------------ *)
\* C9: a sample, once written, is changed by no later step of the run; while
\* a verlet2 call runs the arrays are untouched and the body's new fields are
\* computed from the body's own fields.
Written(j, k) ==
  \/ j = 0 /\ pc \notin {"initial", "error"}
  \/ /\ j >= 1
     /\ pc \in {"loop", "verlet2", "record", "done"}
     /\ (j < i \/ (j = i /\ k < n))

C9_AppendOnly ==
  [][ /\ \A j \in DOMAIN x : \A k \in PlanetIds :
           Written(j, k) => Sample(j, k)' = Sample(j, k)
      /\ pc = "verlet2" =>
           /\ UNCHANGED arrays
           /\ planets'[n] \in {planets[n], move(planets[n]), accel(planets[n]),
                               get_force(planets[n])} ]_vars

C9_Witness ==
  /\ pc = "done" /\ nsteps >= 3
  /\ x[1][0] = hist[0][1].x /\ ~x[1][0].nan
  /\ hist[0][2].x # hist[0][1].x
  /\ x[0][0] # hist[0][1].x

(* ------------------------------- C10 ----------------------------------- *)
\* C10: a verlet2 call on body n, and the recording that follows it, change
\* no field and no sample of any other body; the finished run leaves every
\* body and every trajectory as that body, stepped alone from its own initial
\* condition, would have them, so the order of the bodies within an
\* iteration does not matter.
RECURSIVE RunStatements(_, _)
RunStatements(p, stmts) ==
  IF stmts = <<>> THEN p
  ELSE LET q == CASE Head(stmts) = "move" -> move(p)
                  [] Head(stmts) = "accel" -> accel(p)
                  [] Head(stmts) = "get_force" -> get_force(p)
       IN RunStatements(q, Tail(stmts))

RECURSIVE Alone(_, _)
Alone(k, j) ==
  IF j = 0
    THEN LET p == particle2(m[k], Num(rinit[k]), Num(0), Num(0), Num(vinit[k]),
                            Num(0), Num(0), dt)
         IN [p EXCEPT !.fx = CentralForce(p.x, p.y, p.mass).fx,
                      !.fy = CentralForce(p.x, p.y, p.mass).fy]
    ELSE RunStatements(Alone(k, j - 1), verlet2)

OthersUntouched ==
  pc \in {"verlet2", "record"} =>
    \A k \in PlanetIds \ {n} :
      /\ planets'[k] = planets[k]
      /\ \A j \in DOMAIN x : Sample(j, k)' = Sample(j, k)

EachAlone ==
  pc = "done" =>
    \A k \in PlanetIds :
      /\ planets[k] = Alone(k, nsteps - 1)
      /\ \A j \in DOMAIN x :
           Sample(j, k) = <<Alone(k, j).x, Alone(k, j).y, Alone(k, j).vx, Alone(k, j).vy>>

C10_Independent == [][OthersUntouched]_vars /\ []EachAlone

C10_Witness ==
  /\ pc = "done" /\ nsteps >= 3
  /\ Finite(planets[0]) /\ Finite(planets[1])
  /\ planets[0].mass = planets[1].mass
  /\ planets[0].y # planets[1].y /\ planets[0].vy # planets[1].vy
  /\ hist[0][1].fx.v # 0 /\ hist[1][1].fx.v # 0

(* ------------------------------- C11 ----------------------------------- *)
\* C11: iterations are separated by a barrier: while a body runs its step
\* s + 1, every body has completed step s and has its sample s recorded; the
\* numbers of completed steps of two bodies never differ by more than one.
StepSample(k, j) == <<hist[k][j].x, hist[k][j].y, hist[k][j].vx, hist[k][j].vy>>

C11_Barrier ==
  /\ \A a \in PlanetIds : \A b \in PlanetIds : Len(hist[a]) <= Len(hist[b]) + 1
  /\ pc = "verlet2" =>
       LET s == Len(hist[n])
       IN \A k \in PlanetIds :
            /\ Len(hist[k]) >= s
            /\ s >= 1 => Sample(s, k) = StepSample(k, s)

C11_Witness ==
  /\ pc = "verlet2" /\ n = 0 /\ stmt = 1
  /\ Len(hist[0]) = 2 /\ Len(hist[1]) = 2
  /\ Sample(2, 1) = StepSample(1, 2)
  /\ Sample(2, 1) # Sample(1, 1) /\ FiniteSample(2, 1)

(* ------------------------------- C13 ----------------------------------- *)
\* C13 as stated: each verlet2 call applies accel exactly twice, once before
\* and once after both the position update (move) and the force
\* recomputation (get_force).
OpsAt(name) == {j \in 1 .. Len(ops) : ops[j].op = name}

C13_KickBeforeDrift ==
  Returned =>
    /\ Cardinality(OpsAt("accel")) = 2
    /\ \E a \in OpsAt("accel") : \E b \in OpsAt("accel") :
         /\ \A j \in OpsAt("move") \cup OpsAt("get_force") : a < j
         /\ \A j \in OpsAt("move") \cup OpsAt("get_force") : j < b

\* C13 amended: each verlet2 call applies accel exactly twice: once after the
\* position update and before the force recomputation, with the force of the
\* start of the step, and once after the force recomputation, with the new
\* force.
C13_KickTwice ==
  Returned =>
    /\ Cardinality(OpsAt("accel")) = 2
    /\ \E a \in OpsAt("accel") : \E b \in OpsAt("accel") :
         /\ \A j \in OpsAt("move") : j < a
         /\ \A j \in OpsAt("get_force") : a < j /\ j < b
         /\ ops[a].fx = pre.fx /\ ops[a].fy = pre.fy
         /\ ops[b].fx = planets[n].fx /\ ops[b].fy = planets[n].fy

C13_Witness ==
  /\ Returned /\ Cardinality(OpsAt("accel")) = 2
  /\ Finite(planets[n])
  /\ ops[2].fx.v # 0 /\ ops[4].fx.v # 0 /\ ops[2].fx # ops[4].fx
  /\ planets[n].vx # pre.vx

(* ------------------------------- C14 ----------------------------------- *)
\* C14: get_force stores the force per unit of mass, the acceleration
\* -GM * position / |position|^3: the stored value is the one a body of unit
\* mass at the same position gets, whatever the body's mass.
C14_PerUnitMass ==
  AfterGetForce =>
    /\ planets[n].fx = CentralForce(planets[n].x, planets[n].y, 1).fx
    /\ planets[n].fy = CentralForce(planets[n].x, planets[n].y, 1).fy

(* ------------------------------- C17 ----------------------------------- *)
\* Two bodies of the run that start at the same position with the same
\* velocity (dt is shared) and have different masses.
SameStart(a, b) == rinit[a] = rinit[b] /\ vinit[a] = vinit[b] /\ m[a] # m[b]

\* The body k at its j-th step boundary (0: after the set-up loop).
AtBoundary(k, j) == IF j = 0 THEN Alone(k, 0) ELSE hist[k][j]

\* The forces stored at boundary j differ exactly by the ratio of the masses.
InMassRatio(a, b, j) ==
  /\ Mul(AtBoundary(a, j).fx, Num(m[b])) = Mul(AtBoundary(b, j).fx, Num(m[a]))
  /\ Mul(AtBoundary(a, j).fy, Num(m[b])) = Mul(AtBoundary(b, j).fy, Num(m[a]))

Started == pc \in {"loop", "verlet2", "record", "done"}
CommonSteps(a, b) == {j \in 1 .. Len(hist[a]) : j <= Len(hist[b])}

ParametersKept ==
  Started =>
    \A k \in PlanetIds :
      /\ planets[k].mass = m[k] /\ planets[k].dt = dt
      /\ planets[k].halfdt = IntQuot(dt, 2)
      /\ \A j \in 1 .. Len(hist[k]) :
           hist[k][j].mass = m[k] /\ hist[k][j].dt = dt
             /\ hist[k][j].halfdt = IntQuot(dt, 2)

KickTerms(p) ==
  <<Quot(Mul(p.fx, Num(p.halfdt)), Num(p.mass)),
    Quot(Mul(p.fy, Num(p.halfdt)), Num(p.mass))>>
DriftTerms(p) ==
  <<Quot(Mul(p.fx, Num(p.dt * p.halfdt)), Num(p.mass)),
    Quot(Mul(p.fy, Num(p.dt * p.halfdt)), Num(p.mass))>>
SameIncrements(a, b, j) ==
  /\ KickTerms(AtBoundary(a, j)) = KickTerms(AtBoundary(b, j))
  /\ DriftTerms(AtBoundary(a, j)) = DriftTerms(AtBoundary(b, j))

RevInit ==
  /\ m \in [PlanetIds -> 1 .. MaxMass] /\ m[1] = 1
  /\ rinit \in [PlanetIds -> 0 .. MaxR] /\ rinit[1] = 0
  /\ vinit \in [PlanetIds -> 0 .. MaxV] /\ vinit[1] = 0
  /\ dt \in {2 * h : h \in 1 .. MaxHalfDt}
  /\ tmax \in 0 .. MaxTmax
  /\ nsteps = IntQuot(tmax, dt)
  /\ x = Zeros(0) /\ y = Zeros(0) /\ vx = Zeros(0) /\ vy = Zeros(0)
  /\ planets = [k \in PlanetIds |->
                  IF k = 0
                    THEN InitialForce(particle2(m[0], Num(rinit[0]), Num(0), Num(0),
                                                Num(vinit[0]), Num(0), Num(0), dt))
                    ELSE Placeholder]
  /\ pre = planets[0]
  /\ pc = "forward" /\ err = "none"
  /\ i = 0 /\ n = 0 /\ stmt = 0 /\ ops = <<>>
  /\ hist = [k \in PlanetIds |-> <<>>]
  /\ clock = [k \in PlanetIds |-> [x |-> 0, v |-> 0, f |-> 0]]

RevCall ==
  /\ planets' = [planets EXCEPT ![0] = RunStatements(planets[0], verlet2)]
  /\ hist' = [hist EXCEPT ![0] = Append(@, planets'[0])]
  /\ i' = i + 1
  /\ UNCHANGED <<pc, err, config, arrays, n, stmt, pre, ops, clock>>

RevForward == pc = "forward" /\ i < nsteps /\ RevCall

RevNegate ==
  /\ pc = "forward" /\ i = nsteps
  /\ planets' = [planets EXCEPT ![0].vx = Neg(@), ![0].vy = Neg(@)]
  /\ pc' = "backward" /\ i' = 0
  /\ UNCHANGED <<err, config, arrays, n, stmt, history>>

RevBackward == pc = "backward" /\ i < nsteps /\ RevCall

RevNext ==
  \/ RevForward
  \/ RevNegate
  \/ RevBackward

SpecReversal == RevInit /\ [][RevNext]_vars

\* No division by the mass has rounded: the arithmetic of every call so far
\* was exact (the force law is a function of the position, so its own
\* rounding is the same on the way out and on the way back).
ExactByMass(p) ==
  /\ (p.fx.v * p.halfdt) % p.mass = 0
  /\ (p.fy.v * p.halfdt) % p.mass = 0
ExactSoFar == ExactByMass(pre) /\ \A j \in 1 .. Len(hist[0]) : ExactByMass(hist[0][j])

CameBack == pc = "backward" /\ i = nsteps

\* C12: N steps forward, velocity negated, N steps more: when the arithmetic
\* was exact and the body never met the force centre, the body is back at
\* its original position (with the original force and the opposite
\* velocity), for every N >= 0.
C12_TimeReversal ==
  (CameBack /\ ExactSoFar /\ Finite(planets[0])) =>
    /\ planets[0].x = pre.x /\ planets[0].y = pre.y
    /\ planets[0].vx = Neg(pre.vx) /\ planets[0].vy = Neg(pre.vy)
    /\ planets[0].fx = pre.fx /\ planets[0].fy = pre.fy

C12_Witness ==
  /\ CameBack /\ nsteps >= 2 /\ ExactSoFar /\ Finite(planets[0])
  /\ planets[0].x = pre.x /\ planets[0].y = pre.y
  /\ hist[0][1].x # pre.x /\ hist[0][2].x # hist[0][1].x
  /\ hist[0][1].fx.v # 0 /\ hist[0][nsteps].vy.v # 0

(* ------------------------------- C16 ----------------------------------- *)
\* The statements of verlet(self, dt), lines 101-108, in program order.
\* verlet with its two get_force calls written without arguments
verlet_FixedCall ==
  <<"get_force()", "x", "y", "vx", "vy", "get_force()", "vx", "vy">>

verlet ==
  <<"get_force(fx, fy)", "x", "y", "vx", "vy", "get_force(fx, fy)", "vx", "vy">>

\* The names fx and fy are not local to verlet: they are looked up among the
\* module's globals, which the set-up loop (lines 164-165) binds to the
\* initial force of the last planet.
ScriptGlobals ==
  IF planets[NPLANETS - 1] = Placeholder
    THEN [defined |-> FALSE, fx |-> Num(0), fy |-> Num(0)]
    ELSE LET p == InitialForce(particle2(m[NPLANETS - 1], x[0][NPLANETS - 1],
                     y[0][NPLANETS - 1], vx[0][NPLANETS - 1], vy[0][NPLANETS - 1],
                     Num(0), Num(0), dt))
         IN [defined |-> TRUE, fx |-> p.fx, fy |-> p.fy]

\* One statement of verlet on the body p with argument h: the exception it
\* raises, or the body it leaves.  A name that is not bound raises NameError
\* when it is evaluated; get_force takes no argument besides self, so a call
\* with two raises TypeError.
VerletExec(st, p, h, g) ==
  LET half(f) == Quot(Mul(f, Num(h)), Num(2))
      halfsq(f) == Quot(Mul(f, Num(h * h)), Num(2))
  IN IF st # "get_force()" /\ ~g.defined THEN [raised |-> "NameError", p |-> p]
     ELSE CASE st = "get_force(fx, fy)" -> [raised |-> "TypeError", p |-> p]
            [] st = "get_force()" -> [raised |-> "none", p |-> get_force(p)]
            [] st = "x" -> [raised |-> "none",
                 p |-> [p EXCEPT !.x = Add(p.x, Add(Mul(p.vx, Num(h)), halfsq(g.fx)))]]
            [] st = "y" -> [raised |-> "none",
                 p |-> [p EXCEPT !.y = Add(p.y, Add(Mul(p.vy, Num(h)), halfsq(g.fy)))]]
            [] st = "vx" -> [raised |-> "none",
                 p |-> [p EXCEPT !.vx = Add(p.vx, half(g.fx))]]
            [] st = "vy" -> [raised |-> "none",
                 p |-> [p EXCEPT !.vy = Add(p.vy, half(g.fy))]]

\* A caller outside the script: planets[k].verlet(dt), once the script is over.
CallVerlet ==
  /\ pc = "done"
  /\ \E k \in PlanetIds : n' = k /\ pre' = planets[k]
  /\ pc' = "verlet" /\ stmt' = 1 /\ ops' = <<>>
  /\ UNCHANGED <<err, config, arrays, planets, i, hist, clock>>

\* The next statement of the running verlet call.
ExecVerlet ==
  /\ pc = "verlet"
  /\ LET r == VerletExec(verlet[stmt], planets[n], dt, ScriptGlobals)
     IN IF r.raised # "none"
          THEN /\ pc' = "error" /\ err' = r.raised
               /\ UNCHANGED <<planets, stmt>>
          ELSE /\ planets' = [planets EXCEPT ![n] = r.p]
               /\ pc' = IF stmt = Len(verlet) THEN "returned" ELSE "verlet"
               /\ stmt' = stmt + 1
               /\ UNCHANGED err
  /\ UNCHANGED <<config, arrays, i, n, history>>

VerletNext ==
  \/ Next
  \/ CallVerlet
  \/ ExecVerlet

SpecVerlet == Init /\ [][VerletNext]_vars

\* C16: every call of verlet fails on its first statement, the call
\* get_force(fx, fy): it never gets past it and never returns, and the body's
\* fields are what they were at the call; no step of the script itself
\* enters verlet.
VerletStuck ==
  /\ pc = "verlet" => (stmt = 1 /\ planets[n] = pre)
  /\ pc # "returned"
  /\ err \in {"NameError", "TypeError"} =>
       /\ pc = "error" /\ stmt = 1
       /\ verlet[stmt] = "get_force(fx, fy)"
       /\ planets[n] = pre

C16_VerletFails == []VerletStuck /\ [][Next => pc' \notin {"verlet", "returned"}]_vars

C16_Witness ==
  /\ pc = "error" /\ err = "TypeError" /\ stmt = 1
  /\ planets[n] = pre /\ n = 1
  /\ Len(hist[n]) >= 2 /\ Finite(pre) /\ pre.vx.v # 0
  /\ ScriptGlobals.fx.v # 0

TypeOK ==
  /\ pc \in {"initial", "setup", "loop", "verlet2", "record", "done", "error"}
  /\ err \in {"none", "IndexError"}
  /\ nsteps \in 0 .. MaxTmax
  /\ DOMAIN x = 0 .. (nsteps - 1)
====
